---- MODULE Spec2Model ----
(***************************************************************************)
(* Model of the crawler / mirror server of src/tools.js: webScraping,      *)
(* scrapePage, the shared p-limit limiter, the module variable             *)
(* websiteServer, updateHtml, intelligentHtmlUpdate and restartServer.     *)
(*                                                                         *)
(* Node runs one macrotask (an I/O completion, an incoming call) at a      *)
(* time and then drains the microtask queue.  An action of the model is    *)
(* either one macrotask - the code from the resumption of an await on I/O  *)
(* up to the next await - or one microtask taken from the head of micro.   *)
(* Macrotasks are enabled only when micro is empty.                        *)
(***************************************************************************)
EXTENDS Naturals, Sequences, FiniteSets, TLC

\* ------------------------------------------------------------------ bounds
MaxCalls == 2      \* webScraping invocations in one behaviour
MaxEdits == 2      \* updateHtml / intelligentHtmlUpdate invocations
MaxStamp == 2      \* the values Date.now() returns are 1..MaxStamp
MaxHeight == 9     \* document.body.scrollHeight is at most 50 * MaxHeight

\* -------------------------------------------------------- program constants
CONCURRENCY_LIMIT == 5

\* ------------------------------------------------------------------- URLs
\* A URL string is kept as the record of its parts: o the origin
\* (scheme+host+port), p the path as a sequence of tokens ("/" or a name;
\* <<>> when the string ends right after the host), q the query, f the
\* fragment.  Three more values stand for the other things a caller can
\* pass: Null (JS null), Bad (a string new URL() rejects) and NoArg
\* (undefined, "" or a non-string).
Url(o, p, q, f) == [o |-> o, p |-> p, q |-> q, f |-> f]
Null  == Url("null", <<>>, "", "")
Bad   == Url("bad", <<>>, "", "")
NoArg == Url("none", <<>>, "", "")

H   == "https://h"          \* the origin of the seeds
EXT == "https://ext"        \* another origin

\* new URL(s): throws for Null, Bad, NoArg; pathname of "https://h" is "/"
IsParsable(s) == s.o \notin {"null", "bad", "none"}
ParseUrl(s) == Url(s.o, IF s.p = <<>> THEN <<"/">> ELSE s.p, s.q, s.f)

\* str.replace(/\/$/, ""): removes one "/" when it is the last character
StripTrailingSlash(p) ==
  IF p # <<>> /\ p[Len(p)] = "/" THEN SubSeq(p, 1, Len(p) - 1) ELSE p

normalizeUrl(rawUrl) ==
  IF ~IsParsable(rawUrl) THEN Null
  ELSE LET url == ParseUrl(rawUrl)
       IN  Url(url.o, StripTrailingSlash(url.p), "", "")

\* path.join collapses a run of "/" into one
RECURSIVE JoinPath(_)
JoinPath(p) ==
  IF Len(p) < 2 THEN p
  ELSE IF p[1] = "/" /\ p[2] = "/" THEN JoinPath(Tail(p))
  ELSE <<p[1]>> \o JoinPath(Tail(p))

\* the file of a target, relative to baseDir
urlToPath(url) ==
  LET parsed   == ParseUrl(url)
      stripped == StripTrailingSlash(parsed.p)
      pathname == IF stripped = <<>> THEN <<"/", "index">> ELSE stripped
  IN  JoinPath(pathname \o <<".html">>)

RECURSIVE Dedup(_)
Dedup(s) ==
  IF s = <<>> THEN <<>>
  ELSE LET r == Dedup(SubSeq(s, 1, Len(s) - 1))
           x == s[Len(s)]
       IN  IF \E i \in 1..Len(r) : r[i] = x THEN r ELSE Append(r, x)

InSeq(x, s) == \E i \in 1..Len(s) : s[i] = x

\* extractInternalLinks: hrefs are the a.href values in document order
extractInternalLinks(hrefs, baseUrl) ==
  LET origin == ParseUrl(baseUrl).o
      keep(link) == IsParsable(link) /\ ParseUrl(link).o = origin
      kept == SelectSeq(hrefs, keep)
  IN  Dedup([i \in 1..Len(kept) |-> normalizeUrl(ParseUrl(kept[i]))])

\* ------------------------------------------------------------------ sites
\* A site maps the pathname of a request to the a.href values of the page
\* served there; any other pathname serves a page without anchors.
P(name) == <<"/", name>>
HU(p)   == Url(H, p, "", "")

SiteC ==      \* two pages that link to each other
  [pg \in {<<"/">>, P("b")} |->
     IF pg = <<"/">> THEN <<HU(P("b"))>> ELSE <<HU(<<"/">>)>>]

SiteTri ==    \* a home page and two pages that link to each other and back
  [pg \in {<<"/">>, P("a"), P("b")} |->
     IF pg = <<"/">> THEN <<HU(P("a")), HU(P("b"))>>
     ELSE IF pg = P("a") THEN <<HU(P("b")), HU(<<"/">>)>>
     ELSE <<HU(P("a")), HU(<<"/">>)>>]

SiteOdd ==    \* query/fragment variants, other origins, unparsable hrefs,
              \* a doubled trailing slash and /index
  [pg \in {<<"/">>, P("x"), P("index")} |->
     IF pg = <<"/">>
       THEN <<Url(H, <<"/">>, "?q", "#f"), Url(EXT, P("y"), "", ""), Bad,
              HU(<<"/", "x", "/", "/">>)>>
     ELSE IF pg = P("x")
       THEN <<HU(<<"/", "x", "/", "/">>), HU(P("x")), HU(P("index"))>>
     ELSE <<HU(<<"/">>)>>]

SiteWide ==   \* a home page with three internal links
  [pg \in {<<"/">>, P("a"), P("b"), P("c")} |->
     IF pg = <<"/">> THEN <<HU(P("a")), HU(P("b")), HU(P("c"))>>
     ELSE <<HU(<<"/">>)>>]

SiteOne ==    \* a single page
  [pg \in {<<"/">>} |-> <<>>]

SiteGallery == \* a home page and two pages that show the same picture
  [pg \in {<<"/">>, P("g1"), P("g2")} |->
     IF pg = <<"/">> THEN <<HU(P("g1")), HU(P("g2"))>> ELSE <<>>]

SiteLinks(s, pathname) == IF pathname \in DOMAIN s THEN s[pathname] ELSE <<>>

SiteAssets == \* a single page with images and scripts, and a link elsewhere
  [pg \in {<<"/">>} |-> <<Url(EXT, P("y"), "", "")>>]

\* the effective sources of the <img> elements of a page, resolved against
\* the page (Bad: new URL(src, base) throws), in document order
SiteImgs(s, pathname) ==
  IF s = SiteAssets /\ pathname = <<"/">>
    THEN <<Bad, HU(P("i1")), HU(P("i2"))>>
  ELSE IF s = SiteGallery /\ pathname \in {P("g1"), P("g2")}
    THEN <<HU(P("i1"))>>
    ELSE <<>>

\* the Content-Type of the response to the fetch of an image
ContentType(imageUrl) ==
  IF imageUrl = HU(P("i1")) THEN "image/png"
  ELSE IF imageUrl = HU(P("i2")) THEN "image/jpeg"
  ELSE "none"

\* the src of the <script src> elements of a page, in document order
SiteScripts(s, pathname) ==
  IF s = SiteAssets /\ pathname = <<"/">>
    THEN <<HU(P("a.js")), Url(H, P("a.js"), "?v2", "")>>
    ELSE <<>>


\* ------------------------------------------------------------------ state
Calls == 1..MaxCalls
Edits == 1..MaxEdits

VARIABLES
  site,          \* the site the browser talks to
  scroll,        \* the autoScroll of one page: timer "none" (not called), "on"
                 \* (setInterval set), "cleared" (clearInterval, resolved);
                 \* totalHeight; scrollHeight, the height of the page; read,
                 \* the height each tick has read
  websiteServer, \* tools.js:18, 0 for null, else an index into handles
  handles,       \* every server app.listen returned: "listening", "closing"
                 \* (close() called, 'close' not yet emitted), "closed",
                 \* "failed" (EADDRINUSE)
  waiters,       \* per handle: the callbacks registered by close(cb)
  alive,         \* FALSE once an unhandled 'error' event ended the process
  activeCount,   \* p-limit: functions running
  pending,       \* p-limit: queued functions, <<call, index in batch>>
  micro,         \* the microtask queue
  pc,            \* per webScraping call: where it is suspended
  url,           \* per call: the argument
  visited,       \* per call: the Set of tools.js:308
  queue,         \* per call: the array of tools.js:309
  browser,       \* per call: "none", "open", "closed"
  result,        \* per call: "none", "invalid", "success", "failed"
  count,         \* per call: visited.size as reported in the message
  batch,         \* per call: the scrapePage activations of the last batch
  renderLog,     \* per call: the targets browser.newPage() was called for
  discovered,    \* per call: the links extractInternalLinks returned
  written,       \* per call: what fs.writeFile completed for: the target,
                 \* the path, and the href / src attributes in the file
  files,         \* the mirror directory: path -> content
  epc,           \* per edit call: where it is suspended
  eargs,         \* per edit call: [kind, file, old, new]
  eresult        \* per edit call: "none", "success" or the failure

srvVars   == <<websiteServer, handles, waiters, alive>>
limVars   == <<activeCount, pending>>
callVars  == <<pc, url, visited, queue, browser, result, count, batch>>
histVars  == <<renderLog, discovered, written>>
editVars  == <<epc, eargs, eresult>>
vars == <<site, scroll, websiteServer, handles, waiters, alive, activeCount, pending,
          micro, pc, url, visited, queue, browser, result, count, batch,
          renderLog, discovered, written, files, epc, eargs, eresult>>

PageText == "t1"                    \* the text of a page the crawl persists
INDEX    == <<"/", "index", ".html">>

\* autoScroll has not been called
ScrollNone == [timer |-> "none", totalHeight |-> 0, scrollHeight |-> 0, read |-> <<>>]

InitWith(sites) ==
  /\ site \in sites
  /\ scroll = ScrollNone
  /\ websiteServer = 0
  /\ handles = <<>>
  /\ waiters = <<>>
  /\ alive = TRUE
  /\ activeCount = 0
  /\ pending = <<>>
  /\ micro = <<>>
  /\ pc = [c \in Calls |-> "idle"]
  /\ url = [c \in Calls |-> NoArg]
  /\ visited = [c \in Calls |-> {}]
  /\ queue = [c \in Calls |-> <<>>]
  /\ browser = [c \in Calls |-> "none"]
  /\ result = [c \in Calls |-> "none"]
  /\ count = [c \in Calls |-> 0]
  /\ batch = [c \in Calls |-> <<>>]
  /\ renderLog = [c \in Calls |-> <<>>]
  /\ discovered = [c \in Calls |-> {}]
  /\ written = [c \in Calls |-> {}]
  /\ files = <<>>
  /\ epc = [e \in Edits |-> "idle"]
  /\ eargs = [e \in Edits |-> [kind |-> "none", file |-> <<>>, old |-> "", new |-> ""]]
  /\ eresult = [e \in Edits |-> "none"]

\* a macrotask may run: the process lives and no microtask is left
Ready == alive /\ micro = <<>>

\* ----------------------------------------------------- the server handle
PortFree == \A h \in 1..Len(handles) : handles[h] # "listening"

\* websiteServer = app.listen(3030): binds at once; when the port is taken
\* the server emits 'error', which nobody handles
Listen ==
  /\ handles' = Append(handles, IF PortFree THEN "listening" ELSE "failed")
  /\ waiters' = Append(waiters, <<>>)
  /\ websiteServer' = Len(handles) + 1
  /\ alive' = PortFree

\* new Promise(resolve => websiteServer.close(resolve))
CloseServer(op) ==
  /\ handles' = [handles EXCEPT ![websiteServer] =
                   IF @ = "listening" THEN "closing" ELSE @]
  /\ waiters' = [waiters EXCEPT ![websiteServer] = Append(@, op)]
  /\ UNCHANGED <<websiteServer, alive>>

\* the server emits 'close': every callback registered so far is called
CloseEvent(h) ==
  /\ Ready
  /\ waiters[h] # <<>>
  /\ handles' = [handles EXCEPT ![h] = IF @ = "closing" THEN "closed" ELSE @]
  /\ waiters' = [waiters EXCEPT ![h] = <<>>]
  /\ micro' = [i \in 1..Len(waiters[h]) |-> [k |-> "closed", op |-> waiters[h][i]]]
  /\ UNCHANGED <<site, scroll, websiteServer, alive, limVars, callVars, histVars,
                 files, editVars>>

\* ------------------------------------------------- scrapePage and p-limit
\* fault: the await inside the try that threw; rej: the await outside the try
\* that rejected
\* imgs, scripts: the src of the page's <img> and <script src> elements after
\* the relocation; imgFailed, jsFailed: the downloads that failed (indexes
\* into imageHandles and scriptSrcs)
Task(link) == [link |-> link, norm |-> Null, pc |-> "queued", fault |-> "none",
               rej |-> "none", imgs |-> <<>>, scripts |-> <<>>,
               imgFailed |-> {}, jsFailed |-> {}]

Settled(t) == t.pc \in {"ok", "skipped", "rejected"}
Resolved(t) == t.pc \in {"ok", "skipped"}
\* between browser.newPage() and the end of page.close()
InFlight(t) == t.pc \in {"newPage", "goto", "render", "persist", "close"}

\* (variant) the next batch is taken as soon as one scrapePage has settled
BatchSettlesOnFirst(c, i, t) ==
  /\ pc[c] = "batch"
  /\ \/ t.pc = "rejected"
     \/ Resolved(t)

\* Promise.all of the batch of call c, once task i has become t:
\* rejected with the first rejection, resolved when every task has resolved
BatchSettles(c, i, t) ==
  /\ pc[c] = "batch"
  /\ \/ t.pc = "rejected"
     \/ \A j \in 1..Len(batch[c]) : Resolved(IF j = i THEN t ELSE batch[c][j])

\* what the microtask queue receives when scrapePage (c, i) settles as t:
\* p-limit's next(), then the continuation of webScraping if the batch settled
SettleMicro(c, i, t) ==
  <<[k |-> "next"]>> \o
  (IF BatchSettles(c, i, t)
     THEN <<[k |-> "resume", c |-> c, ok |-> t.pc # "rejected"]>> ELSE <<>>)

\* (mutant) scrapePage without the visited.has test
SkipsPageIgnoringVisited(c, normalizedUrl) == normalizedUrl = Null

\* tools.js:113-114: the guard of scrapePage
SkipsPage(c, normalizedUrl) == normalizedUrl = Null \/ normalizedUrl \in visited[c]

\* p-limit runs the function at the head of its queue: scrapePage (c, i)
\* runs up to `await browser.newPage()`.  ac is activeCount before the run,
\* rest the microtasks still to run.
StartHead(ac, rest) ==
  LET c == pending[1][1]
      i == pending[1][2]
      normalizedUrl == normalizeUrl(batch[c][i].link)
  IN  /\ pending' = Tail(pending)
      /\ activeCount' = ac + 1
      /\ IF SkipsPage(c, normalizedUrl)
           THEN LET t == [batch[c][i] EXCEPT !.norm = normalizedUrl, !.pc = "skipped"]
                IN  /\ batch' = [batch EXCEPT ![c][i] = t]
                    /\ micro' = rest \o SettleMicro(c, i, t)
                    /\ UNCHANGED <<visited, renderLog>>
           ELSE /\ visited' = [visited EXCEPT ![c] = @ \cup {normalizedUrl}]
                /\ renderLog' = [renderLog EXCEPT ![c] = Append(@, normalizedUrl)]
                /\ batch' = [batch EXCEPT ![c][i] =
                               [@ EXCEPT !.norm = normalizedUrl, !.pc = "newPage"]]
                /\ micro' = rest

\* (mutant) a limiter created per call of webScraping instead of the
\* module-wide one
LimitHasSlotPerRun(ac, c) ==
  Cardinality({i \in 1..Len(batch[c]) : InFlight(batch[c][i])}) < CONCURRENCY_LIMIT

\* p-limit: may one more function run?  ac is activeCount; the limiter is
\* the one of tools.js:24, shared by every call c
LimitHasSlot(ac, c) == ac < CONCURRENCY_LIMIT

\* p-limit's enqueue: after one microtask tick, run the head of the queue if
\* fewer than CONCURRENCY_LIMIT functions are running
MicroLimit ==
  /\ alive /\ micro # <<>> /\ micro[1].k = "limit"
  /\ IF pending # <<>> /\ LimitHasSlot(activeCount, pending[1][1])
       THEN StartHead(activeCount, Tail(micro))
       ELSE /\ micro' = Tail(micro)
            /\ UNCHANGED <<limVars, batch, visited, renderLog>>
  /\ UNCHANGED <<site, scroll, srvVars, pc, url, queue, browser, result, count,
                 discovered, written, files, editVars>>

\* p-limit's next(): a function has settled; run the head of the queue
MicroNext ==
  /\ alive /\ micro # <<>> /\ micro[1].k = "next"
  /\ IF pending # <<>>
       THEN StartHead(activeCount - 1, Tail(micro))
       ELSE /\ micro' = Tail(micro)
            /\ activeCount' = activeCount - 1
            /\ UNCHANGED <<pending, batch, visited, renderLog>>
  /\ UNCHANGED <<site, scroll, srvVars, pc, url, queue, browser, result, count,
                 discovered, written, files, editVars>>

\* one await of scrapePage (c, i) completes and the task goes on as t
TaskStep(c, i, t) ==
  /\ batch' = [batch EXCEPT ![c][i] = t]
  /\ micro' = IF Settled(t) THEN SettleMicro(c, i, t) ELSE <<>>

AtPc(c, i, where) == Ready /\ i \in 1..Len(batch[c]) /\ batch[c][i].pc = where

taskFrame == <<site, scroll, srvVars, limVars, pc, url, visited, browser, result, count,
               renderLog, editVars>>

\* tools.js:117
NewPageDone(c, i) ==
  /\ AtPc(c, i, "newPage") /\ browser[c] = "open"
  /\ TaskStep(c, i, [batch[c][i] EXCEPT !.pc = "goto"])
  /\ UNCHANGED <<taskFrame, queue, discovered, written, files>>

\* browser.newPage() rejects: outside the try, scrapePage rejects
NewPageFail(c, i) ==
  /\ AtPc(c, i, "newPage")
  /\ TaskStep(c, i, [batch[c][i] EXCEPT !.pc = "rejected", !.rej = "newPage"])
  /\ UNCHANGED <<taskFrame, queue, discovered, written, files>>

\* tools.js:119-122
GotoDone(c, i) ==
  /\ AtPc(c, i, "goto") /\ browser[c] = "open"
  /\ TaskStep(c, i, [batch[c][i] EXCEPT !.pc = "render"])
  /\ UNCHANGED <<taskFrame, queue, discovered, written, files>>

\* (mutant) page.goto outside the try: its failure rejects scrapePage
GotoFailureEscapes == "rejected"

\* where a failure at the given await of scrapePage continues
\* (tools.js:287-291: catch, then finally page.close())
AfterGotoFailure == "close"

GotoFail(c, i) ==
  /\ AtPc(c, i, "goto")
  /\ TaskStep(c, i, [batch[c][i] EXCEPT !.pc = AfterGotoFailure, !.fault = "nav"])
  /\ UNCHANGED <<taskFrame, queue, discovered, written, files>>

\* tools.js:223-227
RECURSIVE Enqueue(_, _, _)
Enqueue(q, links, seen) ==
  IF links = <<>> THEN q
  ELSE Enqueue(IF Head(links) \notin seen /\ ~InSeq(Head(links), q)
                 THEN Append(q, Head(links)) ELSE q,
               Tail(links), seen)

\* the URL string as a sequence of pieces, for String.prototype.includes
UrlString(u) ==
  <<u.o>> \o u.p \o (IF u.q = "" THEN <<>> ELSE <<u.q>>)
          \o (IF u.f = "" THEN <<>> ELSE <<u.f>>)

\* str.includes(sub) for two URL strings: both begin with their origin
Includes(str, sub) ==
  LET a == UrlString(str)
      b == UrlString(sub)
  IN  Len(b) <= Len(a) /\ SubSeq(a, 1, Len(b)) = b

\* tools.js:158-162
Extension(contentType) == IF contentType = "image/png" THEN "png" ELSE "jpg"

\* tools.js:163-167: `/scraped_website/assets/image_${Date.now()}_${i}.${extension}`,
\* now the value of Date.now(), i the index in imageHandles (from 0)
LocalImage(now, i, extension) ==
  Url("", <<"/scraped_website", "/assets", "/", "image", ToString(now),
            ToString(i), extension>>, "", "")

\* Date.now() counts milliseconds and does not go back: the values it can
\* return are those not below the ones it has returned, which are in the
\* names of the image files
Stamps == 1..MaxStamp
StampsTaken ==
  {s \in Stamps : \E i \in 0..2 : \E e \in {"png", "jpg"} :
                    LocalImage(s, i, e).p \in DOMAIN files}
NotBefore(s) == \A t \in StampsTaken : t <= s
\* the values of n calls of Date.now() made one after the other
Clock(n) ==
  {now \in [1..n -> Stamps] :
     \A k \in 1..n : NotBefore(now[k]) /\ (k > 1 => now[k - 1] <= now[k])}

\* path.basename of a pathname
Basename(p) ==
  IF p = <<>> THEN ""
  ELSE IF p[Len(p)] # "/" THEN p[Len(p)]
  ELSE IF Len(p) >= 2 THEN p[Len(p) - 1] ELSE ""

\* tools.js:195-197
LocalScript(srcUrl) ==
  Url("", <<"/scraped_website", "/assets", "/js", "/", Basename(ParseUrl(srcUrl).p)>>, "", "")

\* tools.js:192-206: the replacements pushed for the scripts that were
\* downloaded, in the order of scriptSrcs
RECURSIVE Replacements(_, _, _)
Replacements(scriptSrcs, jsOk, k) ==
  IF k > Len(scriptSrcs) THEN <<>>
  ELSE (IF IsParsable(scriptSrcs[k]) /\ jsOk[k]
          THEN <<[original |-> scriptSrcs[k], local |-> LocalScript(scriptSrcs[k])]>>
          ELSE <<>>) \o Replacements(scriptSrcs, jsOk, k + 1)

\* tools.js:211-216: replacements.find(r => s.src.includes(r.original))
RECURSIVE RewriteScript(_, _)
RewriteScript(src, replacements) ==
  IF replacements = <<>> THEN src
  ELSE IF IsParsable(src) /\ Includes(src, Head(replacements).original)
    THEN Head(replacements).local
  ELSE RewriteScript(src, Tail(replacements))

\* tools.js:123-227: autoScroll, the images and the scripts downloaded and
\* their elements rewritten, extractInternalLinks completed and its links
\* pushed to the queue.  imgOk, jsOk: which downloads succeeded (fetch, the
\* response status, the write of the file; a failure is caught per asset);
\* now: the value of Date.now() at each image.
RenderDone(c, i) ==
  /\ AtPc(c, i, "render") /\ browser[c] = "open"
  /\ LET normalizedUrl == batch[c][i].norm
         pathname      == ParseUrl(normalizedUrl).p
         imgs          == SiteImgs(site, pathname)
         imageHandles  == SelectSeq(imgs, IsParsable)
         scriptSrcs    == SiteScripts(site, pathname)
         internalLinks == extractInternalLinks(SiteLinks(site, pathname), normalizedUrl)
     IN  \E imgOk \in [1..Len(imageHandles) -> BOOLEAN] :
         \E jsOk \in [1..Len(scriptSrcs) -> BOOLEAN] :
         \E now \in Clock(Len(imageHandles)) :
           LET imageName(k) ==
                 LocalImage(now[k], k - 1, Extension(ContentType(imageHandles[k])))
               localImagePaths ==
                 [k \in 1..Len(imageHandles) |->
                    IF imgOk[k] THEN imageName(k) ELSE imageHandles[k]]
               localScriptPaths == Replacements(scriptSrcs, jsOk, 1)
               newImgs ==
                 [k \in 1..Len(imgs) |->
                    IF k <= Len(localImagePaths) THEN localImagePaths[k] ELSE imgs[k]]
               newScripts ==
                 [k \in 1..Len(scriptSrcs) |->
                    RewriteScript(scriptSrcs[k], localScriptPaths)]
               assetFiles ==
                 {imageName(k).p : k \in {h \in 1..Len(imageHandles) : imgOk[h]}}
                 \cup {localScriptPaths[k].local.p : k \in 1..Len(localScriptPaths)}
           IN  /\ queue' = [queue EXCEPT ![c] = Enqueue(@, internalLinks, visited[c])]
               /\ discovered' = [discovered EXCEPT ![c] =
                     @ \cup {internalLinks[j] : j \in 1..Len(internalLinks)}]
               /\ files' = [f \in assetFiles |-> "asset"] @@ files
               /\ TaskStep(c, i, [batch[c][i] EXCEPT
                     !.pc = "persist", !.imgs = newImgs, !.scripts = newScripts,
                     !.imgFailed = {k \in 1..Len(imageHandles) : ~imgOk[k]},
                     !.jsFailed = {k \in 1..Len(scriptSrcs) :
                                     IsParsable(scriptSrcs[k]) /\ ~jsOk[k]}])
  /\ UNCHANGED <<taskFrame, written>>

\* an await of tools.js:123-222 throws
RenderFail(c, i) ==
  /\ AtPc(c, i, "render")
  /\ TaskStep(c, i, [batch[c][i] EXCEPT !.pc = "close", !.fault = "render"])
  /\ UNCHANGED <<taskFrame, queue, discovered, written, files>>

\* (variant) every anchor is rewritten, whatever its origin
rewriteAnchorAnyOrigin(href, baseOrigin) ==
  IF ~IsParsable(href) THEN href
  ELSE LET parsed   == ParseUrl(href)
           stripped == StripTrailingSlash(parsed.p)
           path     == IF stripped = <<>> THEN <<"/", "index">> ELSE stripped
       IN  Url("", <<"/scraped_website">> \o path \o <<".html">>, "", parsed.f)

\* tools.js:233-242: the href an anchor has after the rewrite; a local href
\* is the record with the empty origin
rewriteAnchor(href, baseOrigin) ==
  IF ~IsParsable(href) THEN href
  ELSE LET parsed == ParseUrl(href)
       IN  IF parsed.o = baseOrigin
             THEN LET stripped == StripTrailingSlash(parsed.p)
                      path == IF stripped = <<>> THEN <<"/", "index">> ELSE stripped
                  IN  Url("", <<"/scraped_website">> \o path \o <<".html">>, "", parsed.f)
             ELSE href

\* tools.js:229-286: anchors rewritten, styles inlined, the file written.
\* The last awaits are file operations, so the step does not need the browser.
PersistDone(c, i) ==
  /\ AtPc(c, i, "persist")
  /\ LET normalizedUrl == batch[c][i].norm
         baseOrigin == ParseUrl(batch[c][i].link).o
         anchors  == SiteLinks(site, ParseUrl(normalizedUrl).p)
         filePath == urlToPath(normalizedUrl)
     IN  /\ files' = (filePath :> PageText) @@ files
         /\ written' = [written EXCEPT ![c] =
                          @ \cup {[norm |-> normalizedUrl, path |-> filePath,
                                   hrefs |-> [j \in 1..Len(anchors) |->
                                               rewriteAnchor(anchors[j], baseOrigin)],
                                   imgs |-> batch[c][i].imgs,
                                   scripts |-> batch[c][i].scripts,
                                   imgFailed |-> batch[c][i].imgFailed,
                                   jsFailed |-> batch[c][i].jsFailed]}]
  /\ TaskStep(c, i, [batch[c][i] EXCEPT !.pc = "close"])
  /\ UNCHANGED <<taskFrame, queue, discovered>>

\* an await of tools.js:229-285 throws
PersistFail(c, i) ==
  /\ AtPc(c, i, "persist")
  /\ TaskStep(c, i, [batch[c][i] EXCEPT !.pc = "close", !.fault = "persist"])
  /\ UNCHANGED <<taskFrame, queue, discovered, written, files>>

\* tools.js:290
CloseDone(c, i) ==
  /\ AtPc(c, i, "close")
  /\ TaskStep(c, i, [batch[c][i] EXCEPT !.pc = "ok"])
  /\ UNCHANGED <<taskFrame, queue, discovered, written, files>>

\* page.close() rejects inside finally: scrapePage rejects
CloseFail(c, i) ==
  /\ AtPc(c, i, "close")
  /\ TaskStep(c, i, [batch[c][i] EXCEPT !.pc = "rejected", !.rej = "close"])
  /\ UNCHANGED <<taskFrame, queue, discovered, written, files>>

\* ------------------------------------------------------------ webScraping
RECURSIVE Repeat(_, _)
Repeat(x, n) == IF n = 0 THEN <<>> ELSE <<x>> \o Repeat(x, n - 1)

Min(a, b) == IF a < b THEN a ELSE b

\* how many entries queue.splice(0, CONCURRENCY_LIMIT) takes
BatchSize(q) == Min(Len(q), CONCURRENCY_LIMIT)

\* tools.js:315-337, entered after puppeteer.launch and after each batch:
\* either the next batch is handed to the limiter, or the loop ends, the
\* server is started and getFolderStructure is awaited.
\* rest: the microtasks still to run.
Loop(c, rest) ==
  IF queue[c] # <<>>
    THEN LET n == BatchSize(queue[c])
         IN  /\ batch' = [batch EXCEPT ![c] = [i \in 1..n |-> Task(queue[c][i])]]
             /\ queue' = [queue EXCEPT ![c] = SubSeq(@, n + 1, Len(@))]
             /\ pending' = pending \o [i \in 1..n |-> <<c, i>>]
             /\ micro' = rest \o Repeat([k |-> "limit"], n)
             /\ pc' = [pc EXCEPT ![c] = "batch"]
             /\ UNCHANGED <<srvVars>>
    ELSE /\ Listen
         /\ pc' = [pc EXCEPT ![c] = "structure"]
         /\ micro' = rest
         /\ UNCHANGED <<batch, queue, pending>>

\* calls are numbered in the order in which they are made
IsNextCall(where, c) == IF c = 1 THEN TRUE ELSE where[c - 1] # "idle"

\* (mutant) the server that runs is not closed first
NeverHasServer == FALSE

\* tools.js:300: is there a server to close first?
HasServer == websiteServer # 0

\* tools.js:294-306
WebScraping(c, u) ==
  /\ Ready
  /\ pc[c] = "idle"
  /\ IsNextCall(pc, c)
  /\ url' = [url EXCEPT ![c] = u]
  /\ IF u = NoArg
       THEN /\ pc' = [pc EXCEPT ![c] = "returned"]
            /\ result' = [result EXCEPT ![c] = "invalid"]
            /\ UNCHANGED srvVars
       ELSE IF HasServer
         THEN /\ CloseServer(<<"scrape", c>>)
              /\ pc' = [pc EXCEPT ![c] = "closeWait"]
              /\ UNCHANGED result
         ELSE /\ pc' = [pc EXCEPT ![c] = "mkdir"]
              /\ UNCHANGED <<srvVars, result>>
  /\ UNCHANGED <<site, scroll, limVars, micro, visited, queue, browser, count, batch,
                 histVars, files, editVars>>

\* tools.js:302-306: the close callback has resolved the promise
ScrapeClosed(c) ==
  /\ alive /\ micro # <<>> /\ micro[1] = [k |-> "closed", op |-> <<"scrape", c>>]
  /\ websiteServer' = 0
  /\ pc' = [pc EXCEPT ![c] = "mkdir"]
  /\ micro' = Tail(micro)
  /\ UNCHANGED <<site, scroll, handles, waiters, alive, limVars, url, visited, queue,
                 browser, result, count, batch, histVars, files, editVars>>

\* tools.js:308-313
MkdirDone(c) ==
  /\ Ready /\ pc[c] = "mkdir"
  /\ visited' = [visited EXCEPT ![c] = {}]
  /\ queue' = [queue EXCEPT ![c] = <<normalizeUrl(url[c])>>]
  /\ pc' = [pc EXCEPT ![c] = "launch"]
  /\ UNCHANGED <<site, scroll, srvVars, limVars, micro, url, browser, result, count,
                 batch, histVars, files, editVars>>

\* puppeteer.launch resolves: first pass through the loop
LaunchDone(c) ==
  /\ Ready /\ pc[c] = "launch"
  /\ browser' = [browser EXCEPT ![c] = "open"]
  /\ Loop(c, <<>>)
  /\ UNCHANGED <<site, scroll, activeCount, url, visited, result, count, histVars,
                 files, editVars>>

\* puppeteer.launch rejects: tools.js:367-372 with browser undefined
LaunchFail(c) ==
  /\ Ready /\ pc[c] = "launch"
  /\ result' = [result EXCEPT ![c] = "failed"]
  /\ pc' = [pc EXCEPT ![c] = "returned"]
  /\ UNCHANGED <<site, scroll, srvVars, limVars, micro, url, visited, queue, browser,
                 count, batch, histVars, files, editVars>>

\* the await of Promise.all (tools.js:317) resumes
MicroResume(c) ==
  /\ alive /\ micro # <<>> /\ micro[1].k = "resume" /\ micro[1].c = c
  /\ IF micro[1].ok
       THEN /\ Loop(c, Tail(micro))
            /\ UNCHANGED <<result, browser>>
       ELSE \* catch, then finally: browser.close()
            /\ result' = [result EXCEPT ![c] = "failed"]
            /\ pc' = [pc EXCEPT ![c] = "browserClose"]
            /\ browser' = [browser EXCEPT ![c] = "closed"]
            /\ micro' = Tail(micro)
            /\ UNCHANGED <<srvVars, batch, queue, pending>>
  /\ UNCHANGED <<site, scroll, activeCount, url, visited, count, histVars, files,
                 editVars>>

\* tools.js:361-366, then finally: browser.close()
StructureDone(c) ==
  /\ Ready /\ pc[c] = "structure"
  /\ result' = [result EXCEPT ![c] = "success"]
  /\ count' = [count EXCEPT ![c] = Cardinality(visited[c])]
  /\ browser' = [browser EXCEPT ![c] = "closed"]
  /\ pc' = [pc EXCEPT ![c] = "browserClose"]
  /\ UNCHANGED <<site, scroll, srvVars, limVars, micro, url, visited, queue, batch,
                 histVars, files, editVars>>

\* tools.js:371 completes and webScraping returns
BrowserCloseDone(c) ==
  /\ Ready /\ pc[c] = "browserClose"
  /\ pc' = [pc EXCEPT ![c] = "returned"]
  /\ UNCHANGED <<site, scroll, srvVars, limVars, micro, url, visited, queue, browser,
                 result, count, batch, histVars, files, editVars>>

\* ------------------------------- updateHtml and intelligentHtmlUpdate
\* kind "updateHtml": file, old (oldText), new (newText);
\* kind "intelligent": file, old holds the instruction, new the text that
\* transformHtml returns
EditReturn(e, r) ==
  /\ epc' = [epc EXCEPT ![e] = "returned"]
  /\ eresult' = [eresult EXCEPT ![e] = r]

\* (variant) updateHtml that does not test newText
MissingParametersButNewText(a) ==
  IF a.kind = "updateHtml" THEN a.file = <<>> \/ a.old = ""
  ELSE a.file = <<>> \/ a.old = ""

\* tools.js:378 and tools.js:1590
MissingParameters(a) ==
  IF a.kind = "updateHtml" THEN a.file = <<>> \/ a.old = "" \/ a.new = ""
  ELSE a.file = <<>> \/ a.old = ""

\* tools.js:375-395 and tools.js:1587-1606: up to `await fs.access`
EditCall(e, a) ==
  /\ Ready
  /\ epc[e] = "idle"
  /\ IsNextCall(epc, e)
  /\ eargs' = [eargs EXCEPT ![e] = a]
  /\ IF MissingParameters(a)
       THEN EditReturn(e, "missing")
       ELSE epc' = [epc EXCEPT ![e] = "access"] /\ UNCHANGED eresult
  /\ UNCHANGED <<site, scroll, srvVars, limVars, micro, callVars, histVars, files>>

\* tools.js:394-406 and tools.js:1605-1617
AccessDone(e) ==
  /\ Ready /\ epc[e] = "access"
  /\ IF eargs[e].file \in DOMAIN files
       THEN epc' = [epc EXCEPT ![e] = "read"] /\ UNCHANGED eresult
       ELSE EditReturn(e, "notfound")
  /\ UNCHANGED <<site, scroll, srvVars, limVars, micro, callVars, histVars, files, eargs>>

\* tools.js:406-431: content read, oldText looked up and replaced, the
\* write is started; `new` now holds the content to write
\* tools.js:1617-1622: content read, transformHtml is awaited
ReadDone(e) ==
  /\ Ready /\ epc[e] = "read"
  /\ LET content == files[eargs[e].file]
     IN  IF eargs[e].kind = "intelligent"
           THEN epc' = [epc EXCEPT ![e] = "transform"] /\ UNCHANGED <<eresult, eargs>>
         ELSE IF content # eargs[e].old
           THEN EditReturn(e, "textnotfound") /\ UNCHANGED eargs
         ELSE epc' = [epc EXCEPT ![e] = "write"] /\ UNCHANGED <<eresult, eargs>>
  /\ UNCHANGED <<site, scroll, srvVars, limVars, micro, callVars, histVars, files>>

\* tools.js:1622-1625
TransformDone(e) ==
  /\ Ready /\ epc[e] = "transform"
  /\ epc' = [epc EXCEPT ![e] = "write"]
  /\ UNCHANGED <<site, scroll, srvVars, limVars, micro, callVars, histVars, files,
                 eargs, eresult>>

\* an await inside the try throws: tools.js:462-468 and tools.js:1640-1646
EditFail(e) ==
  /\ Ready /\ epc[e] \in {"read", "transform", "write"}
  /\ EditReturn(e, "error")
  /\ UNCHANGED <<site, scroll, srvVars, limVars, micro, callVars, histVars, files, eargs>>

\* (variant) a server is started also when none was running
NoRestartListens(e) ==
  /\ EditReturn(e, "success")
  /\ Listen

\* tools.js:452-460 and tools.js:1668-1670: no server is running, the call
\* returns its success
NoRestart(e) ==
  /\ EditReturn(e, "success")
  /\ UNCHANGED srvVars

\* tools.js:431-460 and tools.js:1625-1638 with restartServer
\* (tools.js:1650-1671): the file is written; the server, if there is one,
\* is closed
WriteDone(e) ==
  /\ Ready /\ epc[e] = "write"
  /\ files' = (eargs[e].file :> eargs[e].new) @@ files
  /\ IF HasServer
       THEN /\ CloseServer(<<"edit", e>>)
            /\ epc' = [epc EXCEPT ![e] = "closeWait"]
            /\ UNCHANGED eresult
       ELSE NoRestart(e)
  /\ UNCHANGED <<site, scroll, limVars, micro, callVars, histVars, eargs>>

\* tools.js:437-460 and tools.js:1653-1667: the close callback has resolved
\* the promise; a new server is started
EditClosed(e) ==
  /\ alive /\ micro # <<>> /\ micro[1] = [k |-> "closed", op |-> <<"edit", e>>]
  /\ Listen
  /\ EditReturn(e, "success")
  /\ micro' = Tail(micro)
  /\ UNCHANGED <<site, scroll, limVars, callVars, histVars, files, eargs>>

\* ------------------------------------------------------------- the inputs
Seeds == {NoArg, Bad, HU(<<"/">>)}

EditArgs ==
  [kind : {"updateHtml"}, file : {<<>>, INDEX, <<"/", "nope", ".html">>},
   old : {"", PageText}, new : {"", "t2"}]
  \cup
  [kind : {"intelligent"}, file : {<<>>, INDEX}, old : {"", "blue"}, new : {"t3"}]

\* ------------------------------------------------------- specifications
TaskIds(c) == 1..CONCURRENCY_LIMIT

PageNext ==
  \E c \in Calls : \E i \in TaskIds(c) :
    \/ NewPageDone(c, i) \/ NewPageFail(c, i)
    \/ GotoDone(c, i) \/ GotoFail(c, i)
    \/ RenderDone(c, i) \/ RenderFail(c, i)
    \/ PersistDone(c, i) \/ PersistFail(c, i)
    \/ CloseDone(c, i) \/ CloseFail(c, i)

RunNext ==
  \/ MicroLimit
  \/ MicroNext
  \/ \E c \in Calls :
       \/ ScrapeClosed(c) \/ MkdirDone(c) \/ LaunchDone(c) \/ LaunchFail(c)
       \/ MicroResume(c) \/ StructureDone(c) \/ BrowserCloseDone(c)
  \/ \E h \in 1..Len(handles) : CloseEvent(h)
  \/ PageNext

EditNext ==
  \E e \in Edits :
    \/ AccessDone(e) \/ ReadDone(e) \/ TransformDone(e) \/ EditFail(e)
    \/ WriteDone(e) \/ EditClosed(e)

\* no call of webScraping, updateHtml or intelligentHtmlUpdate is in progress
Quiet ==
  /\ \A c \in Calls : pc[c] \in {"idle", "returned"}
  /\ \A e \in Edits : epc[e] \in {"idle", "returned"}

\* the crawl: calls of webScraping made one after the other, with every
\* failure the browser and the file system can produce
CrawlSites == {SiteC, SiteTri, SiteOdd}
InitCrawl == InitWith(CrawlSites)
NextCrawl ==
  \/ \E c \in Calls : \E u \in Seeds : Quiet /\ WebScraping(c, u)
  \/ RunNext
SpecCrawl == InitCrawl /\ [][NextCrawl]_vars

\* the limiter: crawls that overlap, of a site whose batches fill the
\* limiter.  Of the failures only the rejection of page.close() is taken: it
\* rejects scrapePage and ends the run while its other pages are in flight;
\* the failures caught inside scrapePage lead to page.close() like a success.
InitLimit == InitWith({SiteWide})
NextLimit ==
  \/ \E c \in Calls : WebScraping(c, HU(<<"/">>))
  \/ MicroLimit
  \/ MicroNext
  \/ \E c \in Calls :
       \/ MkdirDone(c) \/ LaunchDone(c)
       \/ MicroResume(c) \/ StructureDone(c) \/ BrowserCloseDone(c)
       \/ ScrapeClosed(c)
  \/ \E h \in 1..Len(handles) : CloseEvent(h)
  \/ \E c \in Calls : \E i \in TaskIds(c) :
       \/ NewPageDone(c, i)
       \/ GotoDone(c, i) \/ RenderDone(c, i) \/ PersistDone(c, i)
       \/ CloseDone(c, i) \/ CloseFail(c, i)
SpecLimit == InitLimit /\ [][NextLimit]_vars

\* the server handle, calls made one after the other
InitServer == InitWith({SiteOne})
NextServerSeq ==
  \/ \E c \in Calls : \E u \in Seeds : Quiet /\ WebScraping(c, u)
  \/ \E e \in Edits : \E a \in EditArgs : Quiet /\ EditCall(e, a)
  \/ RunNext
  \/ EditNext
SpecServerSeq == InitServer /\ [][NextServerSeq]_vars

\* the server handle, calls that overlap (each is started by its own HTTP
\* request, src/route.js)
OverlapArgs ==
  {[kind |-> "updateHtml", file |-> INDEX, old |-> PageText, new |-> "t2"],
   [kind |-> "intelligent", file |-> INDEX, old |-> "blue", new |-> "t3"]}
Next ==
  \/ \E c \in Calls : WebScraping(c, HU(<<"/">>))
  \/ \E e \in Edits : \E a \in OverlapArgs : EditCall(e, a)
  \/ RunNext
  \/ EditNext
Spec == InitServer /\ [][Next]_vars

\* ----------------------------------------------------------------- claims
TasksOf(c) == {batch[c][i] : i \in 1..Len(batch[c])}
AllInFlight == {<<c, i>> \in Calls \X (1..CONCURRENCY_LIMIT) :
                  i <= Len(batch[c]) /\ InFlight(batch[c][i])}
Listening == {h \in 1..Len(handles) : handles[h] = "listening"}
Returned(c) == pc[c] = "returned"

\* C1: in a crawl run browser.newPage() is called at most once for each
\* normalized target, whatever links to it and whether or not its render
\* failed.
C1_RenderAtMostOnce ==
  \A c \in Calls : \A i, j \in 1..Len(renderLog[c]) :
    i # j => renderLog[c][i] # renderLog[c][j]

\* C1 witness: the run of SiteTri has ended; /a failed to load, /b, rendered
\* in the same batch, links to /a and to the home page, and each of the
\* three targets was opened once.
C1_Witness ==
  \E c \in Calls :
    /\ site = SiteTri /\ result[c] = "success"
    /\ Len(renderLog[c]) = 3
    /\ \E t \in TasksOf(c) : t.norm = HU(P("a")) /\ t.fault = "nav" /\ t.pc = "ok"
    /\ \E t \in TasksOf(c) : t.norm = HU(P("b")) /\ t.fault = "none" /\ t.pc = "ok"

\* C2: at most CONCURRENCY_LIMIT scrapePage bodies are between
\* browser.newPage() and the end of page.close(), over all the runs.
C2_AtMostFiveInFlight == Cardinality(AllInFlight) <= CONCURRENCY_LIMIT

\* C2 witness: five pages of two overlapping runs are in flight and a sixth
\* scrapePage waits in the limiter.
C2_Witness ==
  /\ Cardinality(AllInFlight) = CONCURRENCY_LIMIT
  /\ pending # <<>>
  /\ \A c \in Calls : \E i \in 1..CONCURRENCY_LIMIT : <<c, i>> \in AllInFlight

\* C3: when the calls are made one after the other, app.listen is called
\* only when every server created before has emitted 'close', and no two
\* servers listen at the same time.
C3_ListenAfterClose ==
  /\ [](Cardinality(Listening) <= 1 /\ \A h \in 1..Len(handles) : handles[h] # "failed")
  /\ [][Len(handles') > Len(handles) =>
          \A h \in 1..Len(handles) : handles[h] = "closed"]_vars

\* C3 witness: two crawls and an edit have each started a server; the
\* first two are closed, the third listens.
C3_Witness ==
  /\ Len(handles) = 3
  /\ handles = <<"closed", "closed", "listening">>
  /\ \E e \in Edits : eresult[e] = "success"
  /\ \A c \in Calls : result[c] = "success"

\* C4 (the claim): whatever calls overlap, no app.listen is issued while a
\* server holds the port, close-then-listen sequences do not overlap, and
\* websiteServer is the server that holds the port.
C4_ServerMutationsSequenced ==
  /\ \A h \in 1..Len(handles) : handles[h] # "failed"
  /\ \A h \in Listening : websiteServer = h
  /\ Cardinality({c \in Calls : pc[c] = "closeWait"}) +
     Cardinality({e \in Edits : epc[e] = "closeWait"}) <= 1

\* C5: a page.goto that fails is caught in its scrapePage: the task goes on
\* to page.close(), its target stays in visited, the run, the queue and the
\* other tasks are left as they are; a run ends with 'Scraping failed' only
\* when the launch failed or a scrapePage rejected, and a run that ends
\* with its summary has an empty queue and no unsettled task.
GotoFailed(c, i) ==
  /\ i <= Len(batch[c]) /\ batch[c][i].pc = "goto"
  /\ i <= Len(batch'[c]) /\ batch'[c][i].pc \notin {"goto", "render"}

C6_OnlyStartupIsFatal ==
  \A c \in Calls : result[c] = "failed" => browser[c] = "none"

\* C7 (the claim): for a seed that is no URL the browser is not launched,
\* no scrapePage is dispatched, no server is started and no summary is
\* returned.
C7_InvalidSeedAborts ==
  \A c \in Calls :
    url[c] = Bad =>
      /\ browser[c] = "none" /\ batch[c] = <<>>
      /\ result[c] # "success"
      /\ pc[c] \notin {"structure", "browserClose"}

\* C8 (the claim): once the browser has started, webScraping returns a
\* summary whose count is the size of visited, and the run has written no
\* more files than that.
C8_SummaryCount ==
  \A c \in Calls :
    Returned(c) /\ browser[c] # "none" =>
      /\ result[c] = "success"
      /\ count[c] = Cardinality(visited[c])
      /\ Cardinality({w.path : w \in written[c]}) <= count[c]

\* C9 (the claim): a run whose browser has started ends in Done: when it
\* has returned, it has found the queue empty and returns its summary; of
\* two pages that link to each other each was opened once and two files
\* were written, when every render succeeded.
C9_RunReachesDone ==
  \A c \in Calls :
    Returned(c) /\ browser[c] # "none" =>
      /\ result[c] = "success" /\ queue[c] = <<>>
      /\ (site = SiteC /\ url[c] = HU(<<"/">>)
            /\ {w.norm : w \in written[c]} = visited[c])
           => (Len(renderLog[c]) = 2
               /\ Cardinality({w.path : w \in written[c]}) = 2)

\* C10 (the claim): at Done visited is the seed's target together with
\* the targets extractInternalLinks returned, and when every visited target
\* was persisted the run wrote as many files as it reports pages.
C10_ReachabilityComplete ==
  \A c \in Calls :
    Returned(c) /\ result[c] = "success" =>
      /\ visited[c] = ({normalizeUrl(url[c])} \ {Null}) \cup discovered[c]
      /\ {w.norm : w \in written[c]} = visited[c] =>
           Cardinality({w.path : w \in written[c]}) = count[c]

\* ------------------------------------------------- normalizeUrl on seeds
MaxPathLen == 3    \* tokens in the path of a seed

\* the pathnames new URL() yields: empty (nothing after the host) or
\* starting with "/", a name never directly after a name
PathTokens == {"/", "x"}
RECURSIVE PathsOfLen(_)
PathsOfLen(n) ==
  IF n = 0 THEN {<<>>}
  ELSE {Append(p, t) : p \in PathsOfLen(n - 1), t \in PathTokens}
IsPathname(p) ==
  /\ p # <<>> => p[1] = "/"
  /\ \A i \in 1..(Len(p) - 1) : ~(p[i] = "x" /\ p[i + 1] = "x")
NormPaths == {p \in UNION {PathsOfLen(n) : n \in 0..MaxPathLen} : IsPathname(p)}

\* the strings a caller passes as the seed
NormInputs ==
  {Url(o, p, q, f) : o \in {H, EXT}, p \in NormPaths, q \in {"", "?q"},
                     f \in {"", "#f"}} \cup {Bad}

\* the seed on its way to the visited set: normalizeUrl at tools.js:309 makes
\* the frontier entry, scrapePage normalizes that entry again (tools.js:113)
\* and adds the result to visited (tools.js:115)
NextNorm ==
  \/ \E c \in Calls : \E u \in NormInputs : WebScraping(c, u)
  \/ \E c \in Calls : MkdirDone(c) \/ LaunchDone(c)
  \/ MicroLimit
SpecNorm == InitServer /\ [][NextNorm]_vars

\* C11 (the claim): normalizeUrl(normalizeUrl(u)) = normalizeUrl(u) for every
\* valid URL u, so that the key scrapePage adds to visited is the frontier
\* entry it was given.
C11_NormalizeIdempotent ==
  \A c \in Calls :
    IsParsable(url[c]) =>
      /\ normalizeUrl(normalizeUrl(url[c])) = normalizeUrl(url[c])
      /\ \A t \in TasksOf(c) : t.pc # "queued" => t.norm = t.link

\* C12: in every page the crawl has written, an anchor whose URL has the
\* origin of the page's target has the href /scraped_website<pathname>.html
\* <hash> (one trailing slash of the pathname removed, the empty pathname
\* replaced by /index, the query dropped, the fragment kept), and every other
\* anchor has the href it had.
C12_LinkClosure ==
  \A c \in Calls : \A w \in written[c] :
    LET anchors == SiteLinks(site, ParseUrl(w.norm).p)
    IN  /\ Len(w.hrefs) = Len(anchors)
        /\ \A j \in 1..Len(anchors) :
             LET a == anchors[j]
                 pathname == IF a.p = <<>> THEN <<"/">> ELSE a.p
                 cut == IF pathname[Len(pathname)] = "/"
                          THEN SubSeq(pathname, 1, Len(pathname) - 1) ELSE pathname
             IN  IF a.o = w.norm.o
                   THEN /\ w.hrefs[j].o = "" /\ w.hrefs[j].q = ""
                        /\ w.hrefs[j].f = a.f
                        /\ w.hrefs[j].p =
                             <<"/scraped_website">> \o
                             (IF cut = <<>> THEN <<"/", "index">> ELSE cut) \o
                             <<".html">>
                   ELSE w.hrefs[j] = a

\* C12 witness: the home page of SiteOdd has been written: its anchor with
\* query and fragment points to /scraped_website/index.html#f, the one with
\* the doubled slash to /scraped_website/x/.html, the anchor to the other
\* origin and the unparsable one are as they were.
C12_Witness ==
  \E c \in Calls : \E w \in written[c] :
    /\ site = SiteOdd /\ w.norm = HU(<<>>)
    /\ w.hrefs[1] = Url("", <<"/scraped_website", "/", "index", ".html">>, "", "#f")
    /\ w.hrefs[2] = Url(EXT, P("y"), "", "")
    /\ w.hrefs[3] = Bad
    /\ w.hrefs[4] = Url("", <<"/scraped_website", "/", "x", "/", ".html">>, "", "")

\* the crawl of a page with images and scripts, every download of which may
\* fail
InitAssets == InitWith({SiteAssets})
SpecAssets == InitAssets /\ [][NextCrawl]_vars

\* the index in imageHandles of the k-th <img> element
HandleOf(imgs, k) == Len(SelectSeq(SubSeq(imgs, 1, k), IsParsable))

\* C13 (the claim): in every page the crawl has written, an image or a
\* script whose download failed has as src its remote URL, whatever happened
\* to the other assets of the page; and a render in which only downloads
\* failed goes on to write the page.
C13_AssetFailureContained ==
  \A c \in Calls :
    /\ \A w \in written[c] :
         LET pathname   == ParseUrl(w.norm).p
             imgs       == SiteImgs(site, pathname)
             scriptSrcs == SiteScripts(site, pathname)
         IN  /\ \A k \in 1..Len(imgs) :
                  IsParsable(imgs[k]) /\ HandleOf(imgs, k) \in w.imgFailed
                    => w.imgs[k] = imgs[k]
             /\ \A k \in w.jsFailed : w.scripts[k] = scriptSrcs[k]
    /\ \A t \in TasksOf(c) :
         t.pc = "ok" /\ t.fault = "none" => \E w \in written[c] : w.norm = t.norm

\* C14 (the claim): no server listens while updateHtml or
\* intelligentHtmlUpdate has its fs.writeFile in progress.
C14_NoListenerDuringWrite ==
  \A e \in Edits : epc[e] = "write" => Listening = {}

\* C15 (the claim): an edit that completes its write while a server is bound
\* calls close on it and does not return yet; when it returns, after the
\* close callback, no older server holds the port, and the step has started
\* a new server that listens and that websiteServer refers to.
C15_EditThenRebind ==
  [][\A e \in Edits :
       /\ (epc[e] = "write" /\ epc'[e] # "write" /\ eresult'[e] # "error") =>
            IF websiteServer # 0
              THEN /\ epc'[e] = "closeWait" /\ eresult'[e] = "none"
                   /\ handles'[websiteServer] # "listening"
                   /\ files'[eargs[e].file] = eargs[e].new
              ELSE /\ eresult'[e] = "success"
                   /\ UNCHANGED <<websiteServer, handles>>
       /\ (epc[e] = "closeWait" /\ epc'[e] = "returned") =>
            /\ eresult'[e] = "success"
            /\ \A h \in 1..Len(handles) : handles[h] = "closed"
            /\ Len(handles') = Len(handles) + 1
            /\ websiteServer' = Len(handles')
            /\ handles'[websiteServer'] = "listening"]_vars

UpdateErrors == {"missing", "notfound", "textnotfound"}

\* C16: updateHtml called without file, oldText or newText, for a file that
\* is not in the mirror, or with an oldText the file does not hold, returns
\* that failure: no step of the call up to that return changes a file, the
\* server handle or the servers, and every such call ends that way.
C16_UpdateErrorLeavesState ==
  /\ [][\A e \in Edits :
          (eargs'[e].kind = "updateHtml" /\ epc'[e] # epc[e]
             /\ (epc'[e] \in {"access", "read"} \/ eresult'[e] \in UpdateErrors))
            => UNCHANGED <<files, websiteServer, handles, waiters>>]_vars
  /\ [][\A e \in Edits :
          (eargs'[e].kind = "updateHtml" /\ epc'[e] # epc[e]) =>
            /\ (epc[e] = "idle" /\ (eargs'[e].file = <<>> \/ eargs'[e].old = ""
                                     \/ eargs'[e].new = ""))
                 => eresult'[e] = "missing" /\ epc'[e] = "returned"
            /\ (epc[e] = "access" /\ eargs[e].file \notin DOMAIN files)
                 => eresult'[e] = "notfound" /\ epc'[e] = "returned"
            /\ (epc[e] = "read" /\ files[eargs[e].file] # eargs[e].old)
                 => eresult'[e] \in {"textnotfound", "error"} /\ epc'[e] = "returned"]_vars

\* C16 witness: after a crawl and an edit, with the second server listening,
\* an updateHtml whose oldText is no longer in the file has returned its
\* failure; the file holds what the first edit wrote.
C16_Witness ==
  \E e \in Edits :
    /\ eargs[e].kind = "updateHtml" /\ eresult[e] = "textnotfound"
    /\ handles = <<"closed", "listening">> /\ websiteServer = 2
    /\ INDEX \in DOMAIN files /\ files[INDEX] \in {"t2", "t3"}

\* ------------------------------------------------- termination signals
\* tools.js:339-359: webScraping registers the handlers right after its
\* app.listen, and the first server is always started by webScraping, so the
\* handlers are registered exactly when a server has been started
HandlersRegistered == handles # <<>>

\* SIGINT or SIGTERM arrives.  With the handlers registered the first of them
\* runs: if (websiteServer) websiteServer.close(); process.exit(0).  Without
\* them the process ends by the default action.
Signal ==
  /\ Ready
  /\ alive' = FALSE
  /\ handles' = IF HandlersRegistered /\ websiteServer # 0
                  THEN [handles EXCEPT ![websiteServer] =
                          IF @ = "listening" THEN "closing" ELSE @]
                  ELSE handles
  /\ UNCHANGED <<site, scroll, websiteServer, waiters, limVars, micro, callVars,
                 histVars, files, editVars>>

\* calls that overlap, and a signal at any time
NextSignal == Next \/ Signal
SpecSignal == InitServer /\ [][NextSignal]_vars

\* the process ends without a new server having been started: by a signal
Exits == alive /\ ~alive' /\ Len(handles') = Len(handles)

\* C17 (the claim): when a signal ends the process, close() has been called
\* on every server that holds the port.
C17_SignalReleases ==
  [][Exits => \A h \in 1..Len(handles) :
                 handles[h] = "listening" => handles'[h] = "closing"]_vars

\* C18 (the claim): there is no state in which a target has been taken from
\* the queue, is not yet in visited, and the link extraction of a page of
\* the same run can run.
C18_VisitedAtDequeue ==
  \A c \in Calls : \A t \in TasksOf(c) :
    (t.pc = "queued" /\ normalizeUrl(t.link) # Null
       /\ normalizeUrl(t.link) \notin visited[c])
      => ~(Ready /\ \E t2 \in TasksOf(c) : t2.pc = "render")

\* C19 (the claim): the queue of a run never holds an entry twice nor an
\* entry that is in visited, and a link that scrapePage pushes was never in
\* the queue of the run before: it is neither the seed's entry nor a link an
\* earlier extraction returned.
C19_EnqueueOnce ==
  /\ [](\A c \in Calls :
          /\ \A j, k \in 1..Len(queue[c]) : j # k => queue[c][j] # queue[c][k]
          /\ \A j \in 1..Len(queue[c]) : queue[c][j] \notin visited[c])
  /\ [][\A c \in Calls :
          (pc[c] = "batch" /\ pc'[c] = "batch" /\ Len(queue'[c]) > Len(queue[c]))
            => \A k \in (Len(queue[c]) + 1)..Len(queue'[c]) :
                 /\ queue'[c][k] \notin discovered[c]
                 /\ queue'[c][k] # normalizeUrl(url[c])]_vars

\* ------------------------------------------------------------ the batches
SiteSix ==    \* a home page with six internal links
  [pg \in {<<"/">>} |->
     <<HU(P("p1")), HU(P("p2")), HU(P("p3")), HU(P("p4")), HU(P("p5")),
       HU(P("p6"))>>]

\* crawls made one after the other, of a site whose queue is longer than a
\* batch; every page loads and is written
InitBatch == InitWith({SiteSix})
NextBatch ==
  \/ \E c \in Calls : Quiet /\ WebScraping(c, HU(<<"/">>))
  \/ MicroLimit
  \/ MicroNext
  \/ \E c \in Calls :
       \/ ScrapeClosed(c) \/ MkdirDone(c) \/ LaunchDone(c)
       \/ MicroResume(c) \/ StructureDone(c) \/ BrowserCloseDone(c)
  \/ \E h \in 1..Len(handles) : CloseEvent(h)
  \/ \E c \in Calls : \E i \in TaskIds(c) :
       \/ NewPageDone(c, i) \/ GotoDone(c, i) \/ RenderDone(c, i)
       \/ PersistDone(c, i) \/ CloseDone(c, i)
SpecBatch == InitBatch /\ [][NextBatch]_vars

\* C20: a step that takes entries from the queue of a run takes the first
\* min(5, length) of them, in order, as the new batch, and is taken only
\* when every scrapePage of the batch before has resolved; a step that
\* pushes links leaves the batch as it is.
C20_BatchBarrier ==
  [][\A c \in Calls :
       /\ Len(queue'[c]) < Len(queue[c]) =>
            /\ \A t \in TasksOf(c) : Resolved(t)
            /\ Len(batch'[c]) <= 5
            /\ Len(batch'[c]) = Len(queue[c]) \/ Len(batch'[c]) = 5
            /\ \A k \in 1..Len(batch'[c]) :
                 batch'[c][k].link = queue[c][k] /\ batch'[c][k].pc = "queued"
            /\ queue'[c] = SubSeq(queue[c], Len(batch'[c]) + 1, Len(queue[c]))
       /\ Len(queue'[c]) > Len(queue[c]) /\ pc[c] = "batch" =>
            /\ Len(batch'[c]) = Len(batch[c])
            /\ \A k \in 1..Len(batch[c]) : batch'[c][k].link = batch[c][k].link]_vars

\* C20 witness: the home page had six links; five pages were crawled as one
\* batch and the sixth is crawled alone in the next.
C20_Witness ==
  \E c \in Calls :
    /\ site = SiteSix /\ pc[c] = "batch" /\ queue[c] = <<>>
    /\ Len(batch[c]) = 1 /\ batch[c][1].link = HU(P("p6"))
    /\ batch[c][1].pc = "render"
    /\ Cardinality(visited[c]) = 7
    /\ Cardinality(written[c]) = 6

\* ------------------------------------------------------------ the hand-off
\* a scrapePage of run c is in the steps that end with its fs.writeFile
Writing(c) == \E t \in TasksOf(c) : t.pc = "persist"

\* C21 (the claim): the step of a run that calls app.listen and goes on to
\* getFolderStructure is taken with the queue empty and every scrapePage of
\* the last batch resolved; between its close step and that step the run
\* starts no server; and no server listens while a scrapePage of a crawl is
\* writing its document.
C21_HandOffOrder ==
  /\ [][\A c \in Calls :
          /\ (pc[c] # "structure" /\ pc'[c] = "structure") =>
               /\ queue[c] = <<>>
               /\ \A t \in TasksOf(c) : Resolved(t)
               /\ Len(handles') = Len(handles) + 1
          /\ (pc[c] \in {"closeWait", "mkdir", "launch", "batch"}
                /\ pc'[c] # pc[c] /\ pc'[c] # "structure") =>
               Len(handles') = Len(handles) \/ \E d \in Calls \ {c} : pc'[d] = "structure"]_vars
  /\ [](\A c \in Calls : Writing(c) => Listening = {})

\* ------------------------------------------------------------ the frontier
\* a value normalizeUrl returns for a URL of the given origin
IsNormalizedOf(u, origin) ==
  /\ IsParsable(u) /\ u.o = origin /\ u.q = "" /\ u.f = ""
  /\ \E p \in {u.p, Append(u.p, "/")} : u = normalizeUrl(Url(origin, p, "", ""))

\* C22 (the claim): every entry of the queue, of a batch taken from it and of
\* visited is a URL normalizeUrl returned, of the origin of the seed, and so
\* is every link extractInternalLinks returns: anchors of another origin and
\* unparsable anchors are left out.
C22_SameOriginFrontier ==
  \A c \in Calls :
    /\ \A j \in 1..Len(queue[c]) : IsNormalizedOf(queue[c][j], url[c].o)
    /\ \A t \in TasksOf(c) : IsNormalizedOf(t.link, url[c].o)
    /\ \A v \in visited[c] : IsNormalizedOf(v, url[c].o)
    /\ \A d \in discovered[c] : IsNormalizedOf(d, url[c].o)

\* -------------------------------------------------------- the mirror files
\* C23 (the claim): in every page the crawl has written, the href of an
\* anchor of the page's origin, without /scraped_website and without its
\* fragment, is the path urlToPath gives for the anchor's normalized target.
C23_SelfNavigable ==
  \A c \in Calls : \A w \in written[c] :
    LET anchors == SiteLinks(site, ParseUrl(w.norm).p)
    IN  \A j \in 1..Len(anchors) :
          (IsParsable(anchors[j]) /\ anchors[j].o = w.norm.o) =>
            /\ w.hrefs[j].o = "" /\ w.hrefs[j].q = ""
            /\ w.hrefs[j].p =
                 <<"/scraped_website">> \o urlToPath(normalizeUrl(anchors[j]))

\* C24 (the claim): two documents a run has written for different targets
\* are in different files.
C24_PathInjective ==
  \A c \in Calls : \A w1, w2 \in written[c] :
    w1.norm # w2.norm => w1.path # w2.path

\* ---------------------------------------------------------- the image files
\* crawls of a site where two pages of one batch show the same picture
InitImages == InitWith({SiteGallery})
SpecImages == InitImages /\ [][NextBatch]_vars

\* the local image files task t has written
LocalImagesOf(t) == {t.imgs[k] : k \in {j \in 1..Len(t.imgs) : t.imgs[j].o = ""}}

\* C25 (the claim): two scrapePage of a batch never give an image the same
\* local file name, nor does one scrapePage give it to two of its images.
C25_UniqueImageFiles ==
  \A c \in Calls :
    /\ \A i, j \in 1..Len(batch[c]) :
         i # j => LocalImagesOf(batch[c][i]) \cap LocalImagesOf(batch[c][j]) = {}
    /\ \A t \in TasksOf(c) : \A j, k \in 1..Len(t.imgs) :
         (j # k /\ t.imgs[j].o = "") => t.imgs[j] # t.imgs[k]

\* C26 (the claim): in every page the crawl has written, the k-th <img> has
\* as src the local file of the download of its own source, or that source
\* when the download failed or the source does not resolve.
C26_ImageAlignment ==
  \A c \in Calls : \A w \in written[c] :
    LET imgs == SiteImgs(site, ParseUrl(w.norm).p)
    IN  /\ Len(w.imgs) = Len(imgs)
        /\ \A k \in 1..Len(imgs) :
             IF IsParsable(imgs[k]) /\ HandleOf(imgs, k) \notin w.imgFailed
               THEN \E s \in Stamps :
                      w.imgs[k] = LocalImage(s, HandleOf(imgs, k) - 1,
                                             Extension(ContentType(imgs[k])))
               ELSE w.imgs[k] = imgs[k]

\* ------------------------------------------------------ the end of a run
\* C27 (the claim): browser.close() is called, and webScraping returns, only
\* when every scrapePage the run has handed to the limiter has settled, its
\* page closed; none of them is queued or between browser.newPage() and the
\* end of page.close().
C27_NothingInFlight ==
  \A c \in Calls :
    (browser[c] = "closed" \/ Returned(c)) =>
      /\ \A t \in TasksOf(c) : Settled(t) /\ ~InFlight(t)
      /\ \A k \in 1..Len(pending) : pending[k][1] # c

\* -------------------------------------------------------------- autoScroll
distance == 100                                   \* tools.js:56
Heights == {50 * n : n \in 0..MaxHeight}

\* (variant) the loop goes on until the distance exceeds the height
ScrollReachedBeyond(totalHeight, scrollHeight) == totalHeight > scrollHeight

\* tools.js:61
ScrollReached(totalHeight, scrollHeight) == totalHeight >= scrollHeight

\* tools.js:53-57: page.evaluate starts the function in the page, which has
\* some height h; it sets totalHeight to 0 and the interval timer
AutoScroll ==
  /\ Ready /\ scroll.timer = "none"
  /\ \E h \in Heights :
       scroll' = [scroll EXCEPT !.timer = "on", !.totalHeight = 0,
                                !.scrollHeight = h]
  /\ UNCHANGED <<site, srvVars, limVars, micro, callVars, histVars, files, editVars>>

\* tools.js:57-65: the timer fires
ScrollTick ==
  /\ Ready /\ scroll.timer = "on"
  /\ LET scrollHeight == scroll.scrollHeight
         totalHeight  == scroll.totalHeight + distance
     IN  scroll' = [scroll EXCEPT
                      !.totalHeight = totalHeight,
                      !.read = Append(@, scrollHeight),
                      !.timer = IF ScrollReached(totalHeight, scrollHeight)
                                  THEN "cleared" ELSE "on"]
  /\ UNCHANGED <<site, srvVars, limVars, micro, callVars, histVars, files, editVars>>

\* the page gets longer while it is scrolled (content loaded on scroll), up
\* to the height at which it stops growing
PageGrows ==
  /\ Ready /\ scroll.timer = "on"
  /\ \E h \in Heights :
       /\ h > scroll.scrollHeight
       /\ scroll' = [scroll EXCEPT !.scrollHeight = h]
  /\ UNCHANGED <<site, srvVars, limVars, micro, callVars, histVars, files, editVars>>

\* autoScroll of a page of any height; the interval timer fires as long as it
\* is set
InitScroll == InitWith({SiteOne})
NextScroll == AutoScroll \/ ScrollTick \/ PageGrows
SpecScroll == InitScroll /\ [][NextScroll]_vars /\ WF_vars(ScrollTick)

\* C28: every tick adds 100 to totalHeight and clears the timer exactly when
\* the sum is at least the height it has read; a cleared timer has ticked at
\* least once and no earlier tick had reached the height it read; and once
\* autoScroll is called on a page that stops growing, the timer is cleared
\* and the promise resolved.
C28_ScrollTerminates ==
  /\ [][scroll'.totalHeight # scroll.totalHeight =>
          /\ scroll'.totalHeight = scroll.totalHeight + 100
          /\ scroll'.timer = "cleared" <=> scroll'.totalHeight >= scroll.scrollHeight
          /\ scroll'.timer \in {"on", "cleared"}]_vars
  /\ [](scroll.timer = "cleared" =>
          /\ Len(scroll.read) >= 1
          /\ scroll.totalHeight = 100 * Len(scroll.read)
          /\ scroll.totalHeight >= scroll.read[Len(scroll.read)]
          /\ \A k \in 1..(Len(scroll.read) - 1) : 100 * k < scroll.read[k])
  /\ (scroll.timer = "on") ~> (scroll.timer = "cleared")

\* C28 witness: a page 150 high grew to 250 and to 300 while it was
\* scrolled; the third tick read 300 and ended the loop.
C28_Witness ==
  /\ scroll.timer = "cleared"
  /\ scroll.read = <<150, 250, 300>>
  /\ scroll.totalHeight = 300

\* ------------------------------------------- calls without a bound server
\* C29 (the claim): a run that is past its close step and has not reached
\* app.listen finds websiteServer null and no server listening; when it
\* returns 'Scraping failed', websiteServer is null, nothing listens on the
\* port and the files are those there were; a call that returns 'Invalid or
\* missing URL.' changes neither websiteServer nor a server.
C29_FailedCrawlUnserved ==
  /\ [](\A c \in Calls :
          pc[c] \in {"mkdir", "launch", "batch"} =>
            websiteServer = 0 /\ Listening = {})
  /\ [][\A c \in Calls :
          /\ (pc[c] # "returned" /\ pc'[c] = "returned" /\ result'[c] = "failed") =>
               /\ websiteServer' = 0
               /\ \A h \in 1..Len(handles') : handles'[h] # "listening"
               /\ files' = files
          /\ (pc[c] = "idle" /\ result'[c] = "invalid") =>
               /\ pc'[c] = "returned"
               /\ UNCHANGED <<websiteServer, handles, waiters>>]_vars

\* C30: no step of updateHtml or intelligentHtmlUpdate up to the end of its
\* write changes websiteServer or a server; when the write has completed and
\* websiteServer is null, that step writes the file and returns success,
\* websiteServer is still null and no server was started or closed.
C30_EditWithoutServer ==
  [][\A e \in Edits :
       /\ (epc[e] \in {"idle", "access", "read", "transform"} /\ epc'[e] # epc[e]) =>
            UNCHANGED <<websiteServer, handles, waiters>>
       /\ (epc[e] = "write" /\ epc'[e] # "write" /\ eresult'[e] # "error"
             /\ websiteServer = 0) =>
            /\ epc'[e] = "returned" /\ eresult'[e] = "success"
            /\ files'[eargs[e].file] = eargs[e].new
            /\ websiteServer' = 0
            /\ UNCHANGED <<handles, waiters>>]_vars

\* C30 witness: an edit of index.html has returned success while the crawl
\* that wrote the file is still in its batch: no server was ever started.
C30_Witness ==
  \E e \in Edits : \E c \in Calls :
    /\ eresult[e] = "success" /\ epc[e] = "returned"
    /\ pc[c] = "batch"
    /\ handles = <<>> /\ websiteServer = 0
    /\ files[INDEX] = eargs[e].new

====
